---- MODULE Spec2Model ----
(***************************************************************************)
(* MeshParticleEmitter (src/Particles/EmitterTypes/meshParticleEmitter.ts) *)
(* as a state machine: two emitter instances, the Vector3 objects their    *)
(* direction1/direction2 fields refer to, and the record of the last call. *)
(* SpecSampling runs the per-particle calls on one configured emitter;     *)
(* SpecLifecycle runs construction, clone, serialize/parse and the         *)
(* assignments to the public fields on both.                               *)
(*                                                                         *)
(* Numbers.  A JavaScript number is <<n>> (finite) or <<>> (NaN, or the    *)
(* undefined an out-of-range array read gives, which becomes NaN in the    *)
(* first product or sum).  Math.random() returns k/RandomDenom for the     *)
(* face draw and a/WeightDenom for every other draw, 0 <= k,a < denom.     *)
(* Every value derived from a barycentric weight or a range draw (the      *)
(* interpolated point, the cached normal, the output vectors) is kept as   *)
(* its numerator over Scale = WeightDenom^2, so the arithmetic is exact.   *)
(* Mesh data, direction1 and direction2 are plain (unscaled) numbers.      *)
(***************************************************************************)
EXTENDS Integers, Sequences, FiniteSets, TLC

VARIABLES emitters, vectors, last, steps

vars == <<emitters, vectors, last, steps>>

\* Resolution of the face-selection draw: Math.random() = k / RandomDenom.
RandomDenom == 4
\* Resolution of the weight and range draws: Math.random() = a / WeightDenom.
WeightDenom == 2
\* Number of lifecycle calls (construct, clone, parse, assignments) in one run.
MaxCalls == 4

Scale == WeightDenom * WeightDenom

EmitterIds == {1, 2}

Other(i) == CHOOSE j \in EmitterIds : j # i

-----------------------------------------------------------------------------
(* Numbers and vectors *)

NaN == <<>>

Num(n) == <<n>>

IsNaN(a) == a = NaN

Add(a, b) == IF IsNaN(a) \/ IsNaN(b) THEN NaN ELSE Num(a[1] + b[1])

Mul(a, b) == IF IsNaN(a) \/ IsNaN(b) THEN NaN ELSE Num(a[1] * b[1])

Vector3(x, y, z) == [x |-> x, y |-> y, z |-> z]

Vec(x, y, z) == Vector3(Num(x), Num(y), Num(z))

\* Vector3.Zero()
Zero == Vec(0, 0, 0)

Floats(s) == [n \in DOMAIN s |-> Num(s[n])]

\* array[offset] for a 0-based JavaScript array; undefined outside it.
At(array, offset) ==
    IF IsNaN(offset) \/ offset[1] < 0 \/ offset[1] >= Len(array)
    THEN NaN
    ELSE array[offset[1] + 1]

\* Vector3.FromArrayToRef(array, offset, result)
FromArrayToRef(array, offset) ==
    Vector3(At(array, offset),
            At(array, Add(offset, Num(1))),
            At(array, Add(offset, Num(2))))

\* Vector3.asArray()
asArray(v) == <<v.x, v.y, v.z>>

\* Nullable<T>
Null == [present |-> FALSE, data |-> <<>>]

Some(s) == [present |-> TRUE, data |-> s]

-----------------------------------------------------------------------------
(* World matrices: affine (m[3] = m[7] = m[11] = 0, m[15] = 1), so the     *)
(* homogeneous divide of a coordinate transform is a divide by 1.  Entry   *)
(* m[n] of the source is M(m, n) here.                                     *)

Identity == <<1, 0, 0, 0,  0, 1, 0, 0,  0, 0, 1, 0,  0, 0, 0, 1>>

\* Quarter turn about z, scaled by 2, translated by (1, 2, 3).
TurnScaleMove == <<0, 2, 0, 0,  -2, 0, 0, 0,  0, 0, 2, 0,  1, 2, 3, 1>>

WorldMatrices == {Identity, TurnScaleMove}

M(m, n) == Num(m[n + 1])

\* Vector3.TransformNormalFromFloatsToRef(x, y, z, transformation, result)
TransformNormalFromFloatsToRef(x, y, z, m) ==
    Vector3(Add(Add(Mul(x, M(m, 0)), Mul(y, M(m, 4))), Mul(z, M(m, 8))),
            Add(Add(Mul(x, M(m, 1)), Mul(y, M(m, 5))), Mul(z, M(m, 9))),
            Add(Add(Mul(x, M(m, 2)), Mul(y, M(m, 6))), Mul(z, M(m, 10))))

\* Vector3.TransformNormalToRef(vector, transformation, result)
TransformNormalToRef(v, m) == TransformNormalFromFloatsToRef(v.x, v.y, v.z, m)

\* Vector3.TransformCoordinatesFromFloatsToRef(x, y, z, transformation, result);
\* the translation row is scaled like the coordinates it is added to.
TransformCoordinatesFromFloatsToRef(x, y, z, m) ==
    LET n == TransformNormalFromFloatsToRef(x, y, z, m)
    IN  Vector3(Add(n.x, Mul(Num(Scale), M(m, 12))),
                Add(n.y, Mul(Num(Scale), M(m, 13))),
                Add(n.z, Mul(Num(Scale), M(m, 14))))

-----------------------------------------------------------------------------
(* Meshes the emitters can be given, and the scene that resolves ids *)

Mesh(id, indices, positions, normals) ==
    [id |-> id, indices |-> indices, positions |-> positions, normals |-> normals]

\* Two triangles over the unit square in the XY plane.
Quad ==
    Mesh("quad",
         Some(Floats(<<0, 1, 2, 0, 2, 3>>)),
         Some(Floats(<<0, 0, 0,  1, 0, 0,  1, 1, 0,  0, 1, 0>>)),
         Some(Floats(<<0, 0, 1,  1, 0, 0,  0, 1, 0,  1, 1, 1>>)))

\* Geometry with an index buffer that holds no triangle.
Degenerate ==
    Mesh("degenerate",
         Some(<<>>),
         Some(Floats(<<0, 0, 0>>)),
         Some(Floats(<<0, 0, 1>>)))

\* A triangle that names vertex 3 of a three-vertex mesh.
BadIndex ==
    Mesh("bad",
         Some(Floats(<<0, 1, 3>>)),
         Some(Floats(<<0, 0, 0,  2, 0, 0,  0, 2, 0>>)),
         Some(Floats(<<0, 0, 1,  0, 0, 1,  0, 0, 1>>)))

\* Vertex data without an index buffer; not part of the scene.
Orphan ==
    Mesh("orphan",
         Null,
         Some(Floats(<<0, 0, 0,  1, 0, 0,  0, 1, 0>>)),
         Some(Floats(<<0, 0, 1,  0, 0, 1,  0, 0, 1>>)))

\* An index buffer without vertex data.
NoPositions ==
    Mesh("nopos", Some(Floats(<<0, 1, 2>>)), Null, Null)

Meshes == <<Quad, Degenerate, BadIndex, Orphan, NoPositions>>

MeshRefs == DOMAIN Meshes

\* `undefined` as a mesh reference
NoMesh == 0

\* scene.meshes
SceneMeshes == <<1, 2, 3, 5>>

\* mesh.getIndices()
getIndices(mesh) == Meshes[mesh].indices

\* mesh.getVerticesData(kind)
getVerticesData(mesh, kind) ==
    IF kind = "position" THEN Meshes[mesh].positions ELSE Meshes[mesh].normals

\* scene.getLastMeshByID(id): the last mesh of the scene with that id, or null.
getLastMeshByID(id) ==
    LET hits == {n \in DOMAIN SceneMeshes : Meshes[SceneMeshes[n]].id = id}
    IN  IF hits = {}
        THEN NoMesh
        ELSE SceneMeshes[CHOOSE n \in hits : \A h \in hits : h <= n]


-----------------------------------------------------------------------------
(* The emitter.  direction1 and direction2 hold references to Vector3      *)
(* objects (cells of `vectors`); _storedNormal is never shared and is kept *)
(* by value.  ctorMesh remembers the constructor's argument.  Emitter i    *)
(* owns cells 2i-1 and 2i: a Vector3 allocated for it is one of them.      *)

VecIds == 1 .. 2 * Cardinality(EmitterIds)

NewDirection1(i) == 2 * i - 1

NewDirection2(i) == 2 * i

\* new MeshParticleEmitter(mesh) stored as emitter i: the field initialisers
\* and the constructor.
MeshParticleEmitter(i, mesh, heap) ==
    [emitter |->
        [mesh |-> mesh,
         ctorMesh |-> mesh,
         indices |-> IF mesh # NoMesh THEN getIndices(mesh) ELSE Null,
         positions |-> IF mesh # NoMesh THEN getVerticesData(mesh, "position") ELSE Null,
         normals |-> IF mesh # NoMesh THEN getVerticesData(mesh, "normal") ELSE Null,
         storedNormal |-> Zero,
         direction1 |-> NewDirection1(i),
         direction2 |-> NewDirection2(i),
         useMeshNormalsForDirection |-> TRUE],
     vectors |-> [heap EXCEPT ![NewDirection1(i)] = Vec(0, 1, 0),
                              ![NewDirection2(i)] = Vec(0, 1, 0)]]

\* The test with the check of this._normals left out.
UseNormalsWithoutNormals(em) == em.useMeshNormalsForDirection

\* The test with the check of the flag left out.
UseNormalsWithoutFlag(em) == em.normals.present

\* if (this.useMeshNormalsForDirection && this._normals)

UseNormals(em) == em.useMeshNormalsForDirection /\ em.normals.present

\* The guard with the check of this._positions left out.
MissingGeometryIndicesOnly(em) == ~em.indices.present

\* if (!this._indices || !this._positions) return;
\* (an empty array is an object, and so is truthy).

MissingGeometry(em) == ~em.indices.present \/ ~em.positions.present

\* 3 * Math.random() * (this._indices.length / 3) | 0, with Math.random() =
\* k / RandomDenom: the product is formed left to right and then truncated.
\* Every mesh here has length divisible by 3, so length / 3 is exact.
RandomFaceIndex(length, k) == (3 * k * (length \div 3)) \div RandomDenom

\* bu = Math.random(); bv = Math.random() * (1.0 - bu); bw = 1.0 - bu - bv,
\* as numerators over Scale, for draws a / WeightDenom and b / WeightDenom.
Barycentric(a, b) ==
    LET bu == a * WeightDenom
        bv == b * (WeightDenom - a)
    IN  [bu |-> bu, bv |-> bv, bw |-> Scale - bu - bv]

\* bu * vertexA + bv * vertexB + bw * vertexC, component by component.
Interpolate(w, vertexA, vertexB, vertexC) ==
    LET mix(p, q, r) == Add(Add(Mul(Num(w.bu), p), Mul(Num(w.bv), q)), Mul(Num(w.bw), r))
    IN  Vector3(mix(vertexA.x, vertexB.x, vertexC.x),
                mix(vertexA.y, vertexB.y, vertexC.y),
                mix(vertexA.z, vertexB.z, vertexC.z))

\* The three vertices of `array` named by the index triple at randomFaceIndex.
FaceVertices(indices, array, randomFaceIndex) ==
    LET faceIndexA == At(indices, Num(randomFaceIndex))
        faceIndexB == At(indices, Num(randomFaceIndex + 1))
        faceIndexC == At(indices, Num(randomFaceIndex + 2))
    IN  [A |-> FromArrayToRef(array, Mul(faceIndexA, Num(3))),
         B |-> FromArrayToRef(array, Mul(faceIndexB, Num(3))),
         C |-> FromArrayToRef(array, Mul(faceIndexC, Num(3)))]

\* The cached normal when vertexA, vertexB, vertexC are not reloaded and
\* still hold the positions.
StoredNormalFromPositions(em, w, randomFaceIndex) ==
    IF UseNormals(em)
    THEN LET p == FaceVertices(em.indices.data, em.positions.data, randomFaceIndex)
         IN  Interpolate(w, p.A, p.B, p.C)
    ELSE em.storedNormal

\* The cached normal after a sample: vertexA, vertexB, vertexC are reloaded
\* from the normals and interpolated when normals are in use.
StoredNormal(em, w, randomFaceIndex) ==
    IF UseNormals(em)
    THEN LET n == FaceVertices(em.indices.data, em.normals.data, randomFaceIndex)
         IN  Interpolate(w, n.A, n.B, n.C)
    ELSE em.storedNormal

\* startPositionFunction(worldMatrix, positionToUpdate, particle) on emitter em,
\* with the three Math.random() results k, a, b.  `sampled` is FALSE on the
\* early return, where nothing is drawn.
startPositionFunction(em, worldMatrix, positionToUpdate, k, a, b) ==
    IF MissingGeometry(em)
    THEN [emitter |-> em, out |-> positionToUpdate, sampled |-> FALSE,
          offset |-> 0, weights |-> [bu |-> 0, bv |-> 0, bw |-> 0]]
    ELSE
      LET randomFaceIndex == RandomFaceIndex(Len(em.indices.data), k)
          w == Barycentric(a, b)
          p == FaceVertices(em.indices.data, em.positions.data, randomFaceIndex)
          randomVertex == Interpolate(w, p.A, p.B, p.C)
      IN  [emitter |-> [em EXCEPT !.storedNormal = StoredNormal(em, w, randomFaceIndex)],
           out |-> TransformCoordinatesFromFloatsToRef(
                       randomVertex.x, randomVertex.y, randomVertex.z, worldMatrix),
           sampled |-> TRUE,
           offset |-> randomFaceIndex,
           weights |-> w]

\* Scalar.RandomRange(min, max) with Math.random() = c / WeightDenom, as a
\* numerator over Scale.
RandomRange(min, max, c) ==
    IF min = max
    THEN Mul(Num(Scale), min)
    ELSE Add(Mul(Num(c * WeightDenom), Add(max, Mul(Num(-1), min))),
             Mul(Num(Scale), min))

\* startDirectionFunction(worldMatrix, directionToUpdate, particle) on emitter
\* em, with the Math.random() results cx, cy, cz of the three range draws.
startDirectionFunction(em, heap, worldMatrix, directionToUpdate, cx, cy, cz) ==
    IF UseNormals(em)
    THEN [out |-> TransformNormalToRef(em.storedNormal, worldMatrix),
          branch |-> "normal", rand |-> Zero]
    ELSE
      LET direction1 == heap[em.direction1]
          direction2 == heap[em.direction2]
          randX == RandomRange(direction1.x, direction2.x, cx)
          randY == RandomRange(direction1.y, direction2.y, cy)
          randZ == RandomRange(direction1.z, direction2.z, cz)
      IN  [out |-> TransformNormalFromFloatsToRef(randX, randY, randZ, worldMatrix),
           branch |-> "range", rand |-> Vector3(randX, randY, randZ)]

-----------------------------------------------------------------------------
(* Lifecycle and serialization *)

\* DeepCopier.DeepCopy(source, destination): the configuration fields
\* direction1, direction2 (each a clone() of the source's vector, written
\* here into the cell the destination's constructor allocated, which nothing
\* else refers to) and useMeshNormalsForDirection.
DeepCopy(source, heap, destination) ==
    [emitter |-> [destination.emitter EXCEPT
                     !.useMeshNormalsForDirection = source.useMeshNormalsForDirection],
     vectors |-> [destination.vectors EXCEPT
                     ![destination.emitter.direction1] = heap[source.direction1],
                     ![destination.emitter.direction2] = heap[source.direction2]]]

\* clone() with the copy constructed on no mesh.
cloneUnbound(em, heap, j) == DeepCopy(em, heap, MeshParticleEmitter(j, NoMesh, heap))

\* clone(), the copy stored as emitter j.
clone(em, heap, j) == DeepCopy(em, heap, MeshParticleEmitter(j, em.mesh, heap))

\* `this.mesh?.id`: absent (<<>>) without a mesh.
MeshId(mesh) == IF mesh = NoMesh THEN <<>> ELSE <<Meshes[mesh].id>>

getClassName == "MeshParticleEmitter"

\* serialize()
serialize(em, heap) ==
    [type |-> getClassName,
     direction1 |-> asArray(heap[em.direction1]),
     direction2 |-> asArray(heap[em.direction2]),
     meshId |-> MeshId(em.mesh),
     useMeshNormalsForDirection |-> em.useMeshNormalsForDirection]

\* if (serializationObject.meshId): undefined and "" are falsy.
HasMeshId(serializationObject) ==
    serializationObject.meshId # <<>> /\ serializationObject.meshId[1] # ""

\* parse(serializationObject, scene)
parse(em, heap, serializationObject) ==
    [emitter |->
        [em EXCEPT
            !.mesh = IF HasMeshId(serializationObject)
                     THEN getLastMeshByID(serializationObject.meshId[1])
                     ELSE @,
            !.useMeshNormalsForDirection =
                serializationObject.useMeshNormalsForDirection],
     vectors |->
        [heap EXCEPT
            ![em.direction1] = FromArrayToRef(serializationObject.direction1, Num(0)),
            ![em.direction2] = FromArrayToRef(serializationObject.direction2, Num(0))]]

-----------------------------------------------------------------------------
(* The calls.  `last` records the call just made: its arguments, what it   *)
(* drew and what it wrote.  A call's result is bound once, as the single   *)
(* element of a set, and its fields read from that value.                  *)

\* Values a caller's output vector may hold before a call.
OutVectors == {Vec(0, 0, 0), Vec(5 * Scale, 7 * Scale, 9 * Scale)}

\* Values a caller may give direction1 or direction2.
DirectionValues == {Vec(0, 1, 0), Vec(1, 0, -1)}

NoWeights == [bu |-> 0, bv |-> 0, bw |-> 0]

NoRecord ==
    [type |-> "", direction1 |-> <<>>, direction2 |-> <<>>, meshId |-> <<>>,
     useMeshNormalsForDirection |-> FALSE]

\* op, e: the call and the emitter it was made on.  src: the other argument
\* (the mesh of a construction, the source of a clone or a parse).
\* sampled, offset, weights: what startPositionFunction drew; wroteNormal:
\* whether it changed the cached normal.  branch, rand: the branch of
\* startDirectionFunction and the vector it drew before the transform;
\* afterPosition, posSampled, posOffset, posWeights: when it was called with
\* normals in use, right after a startPositionFunction on the same emitter,
\* what that call drew.  rec, unresolved: the record parsed, and whether its meshId was
\* present and unknown to the scene.  afterClone: an assignment made right
\* after a clone of or into this emitter; otherChanged: whether it changed
\* what the other emitter serializes to.
NoCall ==
    [op |-> "new", e |-> 0, src |-> 0, world |-> Identity,
     sampled |-> FALSE, offset |-> 0, weights |-> NoWeights, wroteNormal |-> FALSE,
     branch |-> "", rand |-> Zero,
     afterPosition |-> FALSE, posSampled |-> FALSE, posOffset |-> 0,
     posWeights |-> NoWeights,
     outBefore |-> Zero, outAfter |-> Zero,
     rec |-> NoRecord, unresolved |-> FALSE,
     afterClone |-> FALSE, otherChanged |-> FALSE]

\* The state after `new MeshParticleEmitter()` twice.
Init ==
    /\ emitters = [i \in EmitterIds |->
                      MeshParticleEmitter(i, NoMesh, [v \in VecIds |-> Zero]).emitter]
    /\ vectors = [v \in VecIds |-> Vec(0, 1, 0)]
    /\ last = NoCall
    /\ steps = 0

\* emitters[i] = new MeshParticleEmitter(mesh)
Construct(i, mesh) ==
    \E new \in {MeshParticleEmitter(i, mesh, vectors)} :
        /\ steps < MaxCalls
        /\ emitters' = [emitters EXCEPT ![i] = new.emitter]
        /\ vectors' = new.vectors
        /\ last' = [NoCall EXCEPT !.op = "construct", !.e = i, !.src = mesh]
        /\ steps' = steps + 1

\* emitters[j] = emitters[i].clone()
Clone(i, j) ==
    \E new \in {clone(emitters[i], vectors, j)} :
        /\ steps < MaxCalls
        /\ i # j
        /\ emitters' = [emitters EXCEPT ![j] = new.emitter]
        /\ vectors' = new.vectors
        /\ last' = [NoCall EXCEPT !.op = "clone", !.e = j, !.src = i]
        /\ steps' = steps + 1

\* emitters[i].parse(emitters[j].serialize(), scene)
Parse(i, j) ==
    \E serializationObject \in {serialize(emitters[j], vectors)} :
      \E r \in {parse(emitters[i], vectors, serializationObject)} :
        /\ steps < MaxCalls
        /\ emitters' = [emitters EXCEPT ![i] = r.emitter]
        /\ vectors' = r.vectors
        /\ last' = [NoCall EXCEPT
                        !.op = "parse", !.e = i, !.src = j,
                        !.rec = serializationObject,
                        !.unresolved =
                            /\ HasMeshId(serializationObject)
                            /\ getLastMeshByID(serializationObject.meshId[1]) = NoMesh]
        /\ steps' = steps + 1

\* An assignment to a public field of emitter i, recorded as call `op`.
Assigned(op, i) ==
    [NoCall EXCEPT
        !.op = op, !.e = i,
        !.afterClone = last.op = "clone" /\ i \in {last.e, last.src},
        !.otherChanged = serialize(emitters'[Other(i)], vectors')
                            # serialize(emitters[Other(i)], vectors)]

\* emitters[i].direction1.copyFrom(value) (which = 1) or direction2 (which = 2)
SetDirection(i, which, value) ==
    /\ steps < MaxCalls
    /\ vectors' = [vectors EXCEPT
                      ![IF which = 1 THEN emitters[i].direction1
                                     ELSE emitters[i].direction2] = value]
    /\ UNCHANGED emitters
    /\ last' = Assigned("setDirection", i)
    /\ steps' = steps + 1

\* emitters[i].useMeshNormalsForDirection = value
SetUseMeshNormals(i, value) ==
    /\ steps < MaxCalls
    /\ emitters' = [emitters EXCEPT ![i].useMeshNormalsForDirection = value]
    /\ UNCHANGED vectors
    /\ last' = Assigned("setUseMeshNormals", i)
    /\ steps' = steps + 1

NextLifecycle ==
    \/ \E i \in EmitterIds, mesh \in MeshRefs \cup {NoMesh} : Construct(i, mesh)
    \/ \E i, j \in EmitterIds : Clone(i, j)
    \/ \E i, j \in EmitterIds : Parse(i, j)
    \/ \E i \in EmitterIds, which \in {1, 2}, value \in DirectionValues :
          SetDirection(i, which, value)
    \/ \E i \in EmitterIds, value \in BOOLEAN : SetUseMeshNormals(i, value)

SpecLifecycle == Init /\ [][NextLifecycle]_vars

-----------------------------------------------------------------------------
(* The per-particle calls, on the emitter a particle system holds. *)

\* The results Math.random() may give a call that draws (all of them), or
\* the single run of a call that returns before it draws.
Draws(drawn, denom) == IF drawn THEN 0 .. denom - 1 ELSE {0}

\* emitters[i].startPositionFunction(worldMatrix, positionToUpdate, particle)
StartPosition(i, worldMatrix, positionToUpdate) ==
    \E k \in Draws(~MissingGeometry(emitters[i]), RandomDenom),
       a, b \in Draws(~MissingGeometry(emitters[i]), WeightDenom) :
        \E r \in {startPositionFunction(emitters[i], worldMatrix, positionToUpdate, k, a, b)} :
            /\ emitters' = [emitters EXCEPT ![i] = r.emitter]
            /\ last' = [NoCall EXCEPT
                            !.op = "startPosition", !.e = i, !.world = worldMatrix,
                            !.sampled = r.sampled, !.offset = r.offset,
                            !.weights = r.weights,
                            !.wroteNormal =
                                r.emitter.storedNormal # emitters[i].storedNormal,
                            !.outBefore = positionToUpdate, !.outAfter = r.out]
            /\ UNCHANGED <<vectors, steps>>

\* Whether startDirectionFunction draws for the axis with bounds min and max.
DrawsRange(em, min, max) == ~UseNormals(em) /\ min # max

\* emitters[i].startDirectionFunction(worldMatrix, directionToUpdate, particle)
StartDirection(i, worldMatrix, directionToUpdate) ==
    LET em == emitters[i]
        direction1 == vectors[em.direction1]
        direction2 == vectors[em.direction2]
    IN  \E cx \in Draws(DrawsRange(em, direction1.x, direction2.x), WeightDenom),
           cy \in Draws(DrawsRange(em, direction1.y, direction2.y), WeightDenom),
           cz \in Draws(DrawsRange(em, direction1.z, direction2.z), WeightDenom) :
            \E r \in {startDirectionFunction(em, vectors, worldMatrix,
                                             directionToUpdate, cx, cy, cz)} :
              LET paired == /\ em.useMeshNormalsForDirection
                            /\ em.normals.present
                            /\ last.op = "startPosition"
                            /\ last.e = i
              IN  /\ last' = [NoCall EXCEPT
                                !.op = "startDirection", !.e = i, !.world = worldMatrix,
                                !.branch = r.branch, !.rand = r.rand,
                                !.afterPosition = paired,
                                !.posSampled = paired /\ last.sampled,
                                !.posOffset = IF paired THEN last.offset ELSE 0,
                                !.posWeights = IF paired THEN last.weights
                                               ELSE NoWeights,
                                !.outBefore = directionToUpdate, !.outAfter = r.out]
                /\ UNCHANGED <<emitters, vectors, steps>>

\* The emitter of a particle system: emitter 1, constructed on any mesh or on
\* none and then configured through its public fields.
Emitter == CHOOSE i \in EmitterIds : \A j \in EmitterIds : i <= j

InitSampling ==
    \E mesh \in MeshRefs \cup {NoMesh}, useMeshNormalsForDirection \in BOOLEAN,
       direction1, direction2 \in DirectionValues :
        LET blank == [v \in VecIds |-> Vec(0, 1, 0)]
            new == MeshParticleEmitter(Emitter, mesh, blank)
        IN  /\ emitters =
                 [i \in EmitterIds |->
                    IF i = Emitter
                    THEN [new.emitter EXCEPT !.useMeshNormalsForDirection =
                                                useMeshNormalsForDirection]
                    ELSE MeshParticleEmitter(i, NoMesh, blank).emitter]
            /\ vectors = [new.vectors EXCEPT ![new.emitter.direction1] = direction1,
                                             ![new.emitter.direction2] = direction2]
            /\ last = NoCall
            /\ steps = 0

NextSampling ==
    \/ \E worldMatrix \in WorldMatrices, out \in OutVectors :
          StartPosition(Emitter, worldMatrix, out)
    \/ \E worldMatrix \in WorldMatrices, out \in OutVectors :
          StartDirection(Emitter, worldMatrix, out)

SpecSampling == InitSampling /\ [][NextSampling]_vars

-----------------------------------------------------------------------------
(* Properties *)

\* The emitter of the last call.
E == emitters[last.e]

NoNaN(v) == ~IsNaN(v.x) /\ ~IsNaN(v.y) /\ ~IsNaN(v.z)

\* C1: whenever startPositionFunction samples a mesh of at least one
\* triangle, the offset of the index triple it reads is a multiple of 3 and
\* the whole triple lies inside the index array.
C1_TriangleAligned ==
    (last.op = "startPosition" /\ last.sampled /\ Len(E.indices.data) >= 3)
        => /\ last.offset % 3 = 0
           /\ last.offset + 2 < Len(E.indices.data)

\* The normal of the claim C2: the vertex normals named by the index triple
\* at `offset`, weighted by w.
FaceNormal(em, offset, w) ==
    LET normalOf(n) == FromArrayToRef(em.normals.data,
                                      Mul(At(em.indices.data, Num(n)), Num(3)))
        nA == normalOf(offset)
        nB == normalOf(offset + 1)
        nC == normalOf(offset + 2)
        mix(p, q, r) == Add(Add(Mul(Num(w.bu), p), Mul(Num(w.bv), q)), Mul(Num(w.bw), r))
    IN  Vector3(mix(nA.x, nB.x, nC.x), mix(nA.y, nB.y, nC.y), mix(nA.z, nB.z, nC.z))

\* The rotation and scale of world matrix m applied to v, without translation.
LinearPart(v, m) ==
    Vector3(Add(Add(Mul(v.x, M(m, 0)), Mul(v.y, M(m, 4))), Mul(v.z, M(m, 8))),
            Add(Add(Mul(v.x, M(m, 1)), Mul(v.y, M(m, 5))), Mul(v.z, M(m, 9))),
            Add(Add(Mul(v.x, M(m, 2)), Mul(v.y, M(m, 6))), Mul(v.z, M(m, 10))))

\* C2: with useMeshNormalsForDirection set and normals present, a
\* startDirectionFunction called right after a startPositionFunction that
\* sampled writes the normal transform of the normal interpolated over the
\* triple and with the weights of that position call.
C2_DirectionFromSameSample ==
    (last.op = "startDirection" /\ last.afterPosition /\ last.posSampled)
        => last.outAfter = LinearPart(FaceNormal(E, last.posOffset, last.posWeights),
                                      last.world)

C2_Witness ==
    /\ last.op = "startDirection"
    /\ last.afterPosition
    /\ last.posSampled
    /\ last.posOffset = 3
    /\ last.posWeights.bu > 0
    /\ last.posWeights.bv > 0
    /\ last.world = TurnScaleMove
    /\ NoNaN(last.outAfter)
    /\ last.outAfter # last.outBefore

\* C3: without an index array or without a position array,
\* startPositionFunction returns at once: it draws nothing and leaves the
\* output position and the cached normal as they were.
C3_MissingGeometryNoOp ==
    (last.op = "startPosition" /\ (~E.indices.present \/ ~E.positions.present))
        => /\ ~last.sampled
           /\ last.outAfter = last.outBefore
           /\ ~last.wroteNormal

C3_Witness ==
    /\ last.op = "startPosition"
    /\ E.indices.present
    /\ ~E.positions.present
    /\ last.outBefore # Zero

\* Whether each component of the scaled vector v lies between the
\* corresponding components of direction1 and direction2, in either order.
InRange(v, direction1, direction2) ==
    LET between(c, p, q) ==
            /\ ~IsNaN(c)
            /\ (IF p[1] <= q[1] THEN p[1] ELSE q[1]) * Scale <= c[1]
            /\ c[1] <= (IF p[1] <= q[1] THEN q[1] ELSE p[1]) * Scale
    IN  /\ between(v.x, direction1.x, direction2.x)
        /\ between(v.y, direction1.y, direction2.y)
        /\ between(v.z, direction1.z, direction2.z)

\* What the range branch of startDirectionFunction writes: the direction
\* transform of a vector drawn inside the direction1/direction2 box.
RangeSampled ==
    /\ last.branch = "range"
    /\ InRange(last.rand, vectors[E.direction1], vectors[E.direction2])
    /\ last.outAfter = LinearPart(last.rand, last.world)

\* C4, as stated: on an emitter constructed without a mesh both
\* startPositionFunction and startDirectionFunction leave their output
\* vector untouched.
C4_AllSamplingNoOp ==
    (last.op \in {"startPosition", "startDirection"} /\ E.ctorMesh = NoMesh)
        => last.outAfter = last.outBefore

\* C4, amended: on an emitter constructed without a mesh
\* startPositionFunction is a no-op, and startDirectionFunction, whatever
\* useMeshNormalsForDirection is, writes the direction transform of a vector
\* drawn inside the direction1/direction2 box.
C4_NoMeshSampling ==
    (last.op \in {"startPosition", "startDirection"} /\ E.ctorMesh = NoMesh)
        => /\ last.op = "startPosition"
                => /\ ~last.sampled
                   /\ last.outAfter = last.outBefore
                   /\ ~last.wroteNormal
           /\ last.op = "startDirection" => RangeSampled

C4_Witness ==
    /\ last.op = "startDirection"
    /\ E.ctorMesh = NoMesh
    /\ E.useMeshNormalsForDirection
    /\ last.outAfter # last.outBefore

\* C5: on a mesh whose index array is present and empty startPositionFunction
\* leaves the output position and the cached normal unchanged and writes no
\* NaN.
C5_ZeroTrianglesNoOp ==
    (last.op = "startPosition" /\ E.indices.present /\ Len(E.indices.data) = 0)
        => /\ last.outAfter = last.outBefore
           /\ ~last.wroteNormal
           /\ NoNaN(last.outAfter)

\* The number of vertices of the position array.
VertexCount(em) == Len(em.positions.data) \div 3

\* C6: when the triangle startPositionFunction selects holds an index that is
\* not below the vertex count, it writes neither the output position nor the
\* cached normal.
C6_BadIndexSkipped ==
    (/\ last.op = "startPosition"
     /\ last.sampled
     /\ last.offset % 3 = 0
     /\ last.offset + 2 < Len(E.indices.data)
     /\ \E n \in last.offset .. last.offset + 2 :
           E.indices.data[n + 1][1] >= VertexCount(E))
        => /\ last.outAfter = last.outBefore
           /\ ~last.wroteNormal

\* C10: with useMeshNormalsForDirection unset, startDirectionFunction draws
\* each component inside the direction1/direction2 range, in either order
\* of the bounds, and writes the direction transform of that vector (not of
\* the cached normal).
C10_RangeDirection ==
    (last.op = "startDirection" /\ ~E.useMeshNormalsForDirection) => RangeSampled

C10_Witness ==
    /\ last.op = "startDirection"
    /\ ~E.useMeshNormalsForDirection
    /\ E.normals.present
    /\ vectors[E.direction1].x[1] > vectors[E.direction2].x[1]
    /\ vectors[E.direction1].y[1] < vectors[E.direction2].y[1]
    /\ last.rand.x \notin {Mul(Num(Scale), vectors[E.direction1].x),
                           Mul(Num(Scale), vectors[E.direction2].x)}
    /\ last.world = TurnScaleMove

\* The snapshot an emitter bound to `mesh` samples from.
Extracted(em, mesh) ==
    /\ em.indices = Meshes[mesh].indices
    /\ em.positions = Meshes[mesh].positions
    /\ em.normals = Meshes[mesh].normals

\* The emitter whose serialization the last parse read, or the source of the
\* last clone.
Source == emitters[last.src]

\* C7: after f.parse(e.serialize()) for an emitter e bound to a mesh whose id
\* the scene resolves, f has e's direction1, direction2 and
\* useMeshNormalsForDirection, f.mesh is e's mesh, and f samples from the
\* index, position and normal arrays of that mesh.
C7_ParseRebinds ==
    (/\ last.op = "parse"
     /\ Source.mesh # NoMesh
     /\ getLastMeshByID(Meshes[Source.mesh].id) # NoMesh)
        => /\ vectors[E.direction1] = vectors[Source.direction1]
           /\ vectors[E.direction2] = vectors[Source.direction2]
           /\ E.useMeshNormalsForDirection = Source.useMeshNormalsForDirection
           /\ E.mesh = Source.mesh
           /\ Extracted(E, Source.mesh)

\* Whether startPositionFunction on em writes nothing, whatever it is given
\* and whatever it draws.
PositionNoOp(em) ==
    \A worldMatrix \in WorldMatrices, out \in OutVectors,
       k \in 0 .. RandomDenom - 1, a, b \in 0 .. WeightDenom - 1 :
        LET r == startPositionFunction(em, worldMatrix, out, k, a, b)
        IN  r.out = out /\ r.emitter = em

\* C8: after a parse of a record whose meshId is present and unknown to the
\* scene, the emitter has no mesh and its startPositionFunction is a no-op.
C8_UnresolvedParseUnbinds ==
    (last.op = "parse" /\ last.unresolved)
        => /\ E.mesh = NoMesh
           /\ PositionNoOp(E)

\* C9: c = e.clone() serializes to the record e serializes to and shares no
\* direction vector with e; an assignment to direction1, direction2 or
\* useMeshNormalsForDirection of one emitter leaves what the other
\* serializes to unchanged.
C9_CloneIndependent ==
    /\ last.op = "clone"
          => /\ serialize(E, vectors) = serialize(Source, vectors)
             /\ {E.direction1, E.direction2}
                   \cap {Source.direction1, Source.direction2} = {}
             /\ E.direction1 # E.direction2
    /\ last.op \in {"setDirection", "setUseMeshNormals"} => ~last.otherChanged

C9_Witness ==
    /\ last.op = "setDirection"
    /\ last.afterClone
    /\ E.mesh # NoMesh
    /\ E.mesh = emitters[Other(last.e)].mesh
    /\ vectors[E.direction1] # vectors[emitters[Other(last.e)].direction1]

=============================================================================
